---- MODULE Spec2Model ----
(***************************************************************************)
(* A model of bytedance/setup-openclaw.py: the provisioning script that   *)
(* resolves credentials, rewrites /root/.openclaw/openclaw.json, tunes    *)
(* the memory limits of a systemd user unit and enables/restarts it.      *)
(*                                                                         *)
(* Python strings are TLA+ strings (TLC evaluates Len, \o and SubSeq on    *)
(* them).  A JSON value is a one-field record whose field name is its     *)
(* type: [map |-> f], [str |-> s], [list |-> q], [bool |-> b],            *)
(* [num |-> n], [null |-> TRUE].  A raised exception is [exc |-> name].   *)
(***************************************************************************)
EXTENDS Integers, Sequences, FiniteSets, TLC

VARIABLES
    pc,           \* position of the running main(), or how the last run ended
    host,         \* what this host's operator supplies: credential keys, number of runs
    runs,         \* runs started so far
    fs,           \* files of CONFIG_DIR: name -> content (a sequence of chunks)
    startFs,      \* fs as it was when the current run started
    creds,        \* the ten values main() resolves with get_config
    config,       \* main()'s in-memory document
    loaded,       \* the document as json.load returned it (or {} when no file)
    site,         \* detect_site()'s result
    instance_id,  \* get_instance_id()'s result
    pending,      \* the serialisation json.dump is writing
    log,          \* warning and failure lines log() printed in the current run
    unit,         \* the unit file's text: None when it does not exist, else Some(text)
    waited,       \* main()'s waited, while it polls for the bus socket
    attempt,      \* main()'s attempt, in a retry loop
    calls,        \* per retry loop: how often systemctl was run
    slept,        \* per retry loop: how often time.sleep(retry_delay) was called
    ended,        \* per retry loop: "" while it has not ended, else how it ended
    memPrev,      \* the unit file before the memory-limit step last ran
    memTotals,    \* per run of the step: the total memory it read, or the exception
    memWrote,     \* whether the step last run called write_text
    envFile,      \* the .env file: None when it does not exist, else Some(text)
    os_environ,   \* os.environ
    fileVars,     \* what load_env_file returned
    resolved,     \* what get_config returned: None before the call
    heap0,        \* the dict objects before deep_merge is called
    heap,         \* the dict objects
    baseAt,       \* address of deep_merge's base
    updateAt,     \* address of deep_merge's update
    resultAt      \* address of deep_merge's result, 0 before the call

cfgVars == <<host, runs, fs, startFs, creds, config, loaded, site, instance_id, pending>>
svcVars == <<unit, waited, attempt, calls, slept, ended>>
memVars == <<memPrev, memTotals, memWrote>>
envVars == <<envFile, os_environ, fileVars, resolved>>
mergeVars == <<heap0, heap, baseAt, updateAt, resultAt>>
auxVars == <<memVars, envVars, mergeVars>>

vars == <<pc, log, cfgVars, svcVars, auxVars>>

------------------------------------------------------------------------------
(* Bounds of the model *)

\* how many times the script is run on a host whose runs are followed in sequence
MaxRuns == 2
\* chunks the buffered writer holds before it flushes to disk (8 KiB in CPython)
FlushChunks == 3

(* Program constants *)

\* secrets.token_hex(24)
TokenBytes == 24
\* len(wecom_encoding_aes_key) != 43
AesKeyLen == 43

LOG_FILE == "/var/log/openclaw-setup.log"
CONFIG_FILE == "openclaw.json"
ENV_FILE == ".env"
SCRIPT_VERSION == "0203.1"

------------------------------------------------------------------------------
(* Python values *)

None == <<>>
Some(v) == <<v>>

\* the truth value Python gives an Optional[str]: None and "" are false
Truthy(o) == o # None /\ o[1] # ""

\* a or b on Optional[str] operands
PyOr(a, b) == IF Truthy(a) THEN a ELSE b

Str(s) == [str |-> s]
Num(n) == [num |-> n]
Bool(b) == [bool |-> b]
List(q) == [list |-> q]
Map(f) == [map |-> f]
Null == [null |-> TRUE]
EmptyMap == Map([k \in {} |-> Null])

Raise(name) == [exc |-> name]
IsExc(v) == "exc" \in DOMAIN v
IsMap(v) == "map" \in DOMAIN v

\* d[k] = x on a dict d
Put(d, k, x) == Map([kk \in DOMAIN d.map \cup {k} |-> IF kk = k THEN x ELSE d.map[kk]])

\* a dict literal of one, two ... entries
Map1(k1, v1) == Put(EmptyMap, k1, v1)
Map2(k1, v1, k2, v2) == Put(Map1(k1, v1), k2, v2)
Map3(k1, v1, k2, v2, k3, v3) == Put(Map2(k1, v1, k2, v2), k3, v3)
Map4(k1, v1, k2, v2, k3, v3, k4, v4) == Put(Map3(k1, v1, k2, v2, k3, v3), k4, v4)
Map5(k1, v1, k2, v2, k3, v3, k4, v4, k5, v5) ==
    Put(Map4(k1, v1, k2, v2, k3, v3, k4, v4), k5, v5)

\* if p[-1] not in v[p[1]]...[p[-2]]: v[p[1]]...[p[-1]] = {}
\* Subscripting or assigning into a value that is not a dict raises TypeError.
RECURSIVE EnsureIn(_, _)
EnsureIn(v, p) ==
    IF IsExc(v) THEN v
    ELSE IF ~IsMap(v) THEN Raise("TypeError")
    ELSE IF Len(p) = 1
         THEN IF p[1] \in DOMAIN v.map THEN v ELSE Put(v, p[1], EmptyMap)
    ELSE IF p[1] \notin DOMAIN v.map THEN Raise("KeyError")
    ELSE LET sub == EnsureIn(v.map[p[1]], Tail(p))
         IN  IF IsExc(sub) THEN sub ELSE Put(v, p[1], sub)

\* v[p[1]]...[p[-1]] = x
RECURSIVE SetIn(_, _, _)
SetIn(v, p, x) ==
    IF IsExc(v) THEN v
    ELSE IF ~IsMap(v) THEN Raise("TypeError")
    ELSE IF Len(p) = 1 THEN Put(v, p[1], x)
    ELSE IF p[1] \notin DOMAIN v.map THEN Raise("KeyError")
    ELSE LET sub == SetIn(v.map[p[1]], Tail(p), x)
         IN  IF IsExc(sub) THEN sub ELSE Put(v, p[1], sub)

\* v[p[1]]...[p[-1]] where every step is a dict holding the key, else Null
RECURSIVE Lookup(_, _)
Lookup(v, p) ==
    IF p = <<>> THEN v
    ELSE IF ~IsMap(v) THEN Null
    ELSE IF p[1] \notin DOMAIN v.map THEN Null
    ELSE Lookup(v.map[p[1]], Tail(p))

\* whether v[p[1]]...[p[-1]] exists
RECURSIVE HasPath(_, _)
HasPath(v, p) ==
    IF p = <<>> THEN TRUE
    ELSE IsMap(v) /\ p[1] \in DOMAIN v.map /\ HasPath(v.map[p[1]], Tail(p))

------------------------------------------------------------------------------
(* Strings *)

RECURSIVE Rep(_, _)
Rep(c, n) == IF n = 0 THEN "" ELSE c \o Rep(c, n - 1)

Char(s, i) == SubSeq(s, i, i)

Whitespace == {" ", "\n", "\t"}

\* str.strip()
RECURSIVE LStrip(_)
LStrip(s) ==
    IF Len(s) > 0 /\ Char(s, 1) \in Whitespace THEN LStrip(SubSeq(s, 2, Len(s))) ELSE s

RECURSIVE RStrip(_)
RStrip(s) ==
    IF Len(s) > 0 /\ Char(s, Len(s)) \in Whitespace
    THEN RStrip(SubSeq(s, 1, Len(s) - 1)) ELSE s

Strip(s) == LStrip(RStrip(s))

\* str.startswith(prefix)
StartsWith(s, prefix) == Len(s) >= Len(prefix) /\ SubSeq(s, 1, Len(prefix)) = prefix

\* str.find(sub, from i): the least index >= i where sub occurs, 0 when there is none
RECURSIVE Find(_, _, _)
Find(s, sub, i) ==
    IF i + Len(sub) - 1 > Len(s) THEN 0
    ELSE IF SubSeq(s, i, i + Len(sub) - 1) = sub THEN i
    ELSE Find(s, sub, i + 1)

\* sub in s
Contains(s, sub) == Find(s, sub, 1) # 0

------------------------------------------------------------------------------
(* Credentials: load_env_file and get_config *)

\* a Python dict str -> str as a TLA+ function; d[k] = v
PutStr(d, k, v) == [kk \in DOMAIN d \cup {k} |-> IF kk = k THEN v ELSE d[kk]]

\* d.get(k): Some(d[k]) or None
DictGet(d, k) == IF k \in DOMAIN d THEN Some(d[k]) ELSE None

EmptyDict == [k \in {} |-> ""]

\* "for line in f": the text cut after each "\n"
RECURSIVE FileLines(_)
FileLines(text) ==
    IF text = "" THEN <<>>
    ELSE LET i == Find(text, "\n", 1)
         IN  IF i = 0 THEN <<text>>
             ELSE <<SubSeq(text, 1, i)>> \o FileLines(SubSeq(text, i + 1, Len(text)))

\* the body of load_env_file's loop for one line
ParseEnvLine(env_vars, rawline) ==
    LET line == Strip(rawline)
        eq == Find(line, "=", 1)
    IN  IF line = "" \/ StartsWith(line, "#") THEN env_vars
        ELSE IF eq # 0
             THEN PutStr(env_vars, Strip(SubSeq(line, 1, eq - 1)),
                         Strip(SubSeq(line, eq + 1, Len(line))))
        ELSE env_vars

RECURSIVE ParseEnvLines(_, _)
ParseEnvLines(env_vars, lines) ==
    IF lines = <<>> THEN env_vars
    ELSE ParseEnvLines(ParseEnvLine(env_vars, Head(lines)), Tail(lines))

\* load_env_file(): file is None when ENV_FILE does not exist, else Some(text)
load_env_file(file) ==
    IF file = None THEN EmptyDict ELSE ParseEnvLines(EmptyDict, FileLines(file[1]))

\* a deliberately wrong get_config: the file's value first
get_config_file_first(environ, env_file_vars, key) ==
    PyOr(PyOr(DictGet(env_file_vars, key), DictGet(environ, key)), Some(""))[1]

\* get_config(env_file_vars, key), with os.environ passed in
get_config(environ, env_file_vars, key) ==
    PyOr(PyOr(DictGet(environ, key), DictGet(env_file_vars, key)), Some(""))[1]

mask(value) == IF value # "" THEN "***SET***" ELSE "(not set)"

------------------------------------------------------------------------------
(* Site and instance id *)

\* detect_site() and get_instance_id(): resp is None when urlopen or decode raised,
\* else Some(body)
detect_site(resp) == IF resp = None THEN "unknown" ELSE Strip(resp[1])
get_instance_id(resp) == IF resp = None THEN "unknown" ELSE Strip(resp[1])

get_ark_url(site_name, coding_plan) ==
    IF site_name = "BytePlus"
    THEN IF coding_plan THEN "https://ark.ap-southeast.bytepluses.com/api/coding/v3"
         ELSE "https://ark.ap-southeast.bytepluses.com/api/v3"
    ELSE IF coding_plan THEN "https://ark.cn-beijing.volces.com/api/coding/v3"
         ELSE "https://ark.cn-beijing.volces.com/api/v3"

------------------------------------------------------------------------------
(* deep_merge on a heap of dict objects.  A heap is a sequence of dicts    *)
(* (functions key -> value); a value that is a dict is held by reference,  *)
(* [ref |-> address], as Python holds it.                                  *)

Ref(a) == [ref |-> a]
IsRef(v) == "ref" \in DOMAIN v

\* the keys of a dict, one after the other.  Python visits them in insertion
\* order; the documents here are order-insensitive, so any fixed order serves.
RECURSIVE SetToSeq(_)
SetToSeq(S) ==
    IF S = {} THEN <<>>
    ELSE LET x == CHOOSE y \in S : TRUE IN <<x>> \o SetToSeq(S \ {x})
KeysOf(d) == SetToSeq(DOMAIN d)

\* base.copy() without the copy: result and base are one object
CopyAlias(h, b) == [heap |-> h, res |-> b]

\* result = base.copy(): a new dict object with base's entries (a shallow copy)
Copy(h, b) == [heap |-> Append(h, h[b]), res |-> Len(h) + 1]

\* result[key] = value
Assign(h, r, key, value) == [h EXCEPT ![r] = PutStr(@, key, value)]

RECURSIVE deep_merge(_, _, _)
RECURSIVE MergeItems(_, _, _, _)
\* the loop "for key, value in update.items()" over the keys ks still to visit
MergeItems(h, r, u, ks) ==
    IF ks = <<>> THEN [heap |-> h, res |-> r]
    ELSE LET key == Head(ks)
             value == h[u][key]
         IN  IF key \in DOMAIN h[r] /\ IsRef(h[r][key]) /\ IsRef(value)
             THEN LET sub == deep_merge(h, h[r][key].ref, value.ref)
                  IN  MergeItems(Assign(sub.heap, r, key, Ref(sub.res)), r, u, Tail(ks))
             ELSE MergeItems(Assign(h, r, key, value), r, u, Tail(ks))

\* deep_merge(base, update) on the dicts at addresses b and u of heap h:
\* the heap afterwards and the address of the result
deep_merge(h, b, u) ==
    LET c == Copy(h, b)
    IN  MergeItems(c.heap, c.res, u, KeysOf(h[u]))

\* a nested JSON mapping stored into the heap: the heap afterwards and its address
RECURSIVE Alloc(_, _)
RECURSIVE AllocItems(_, _, _, _)
AllocItems(h, a, m, ks) ==
    IF ks = <<>> THEN h
    ELSE LET key == Head(ks)
         IN  IF IsMap(m[key])
             THEN LET sub == Alloc(h, m[key])
                  IN  AllocItems(Assign(sub.heap, a, key, Ref(sub.res)), a, m, Tail(ks))
             ELSE AllocItems(Assign(h, a, key, m[key]), a, m, Tail(ks))
Alloc(h, v) ==
    LET a == Len(h) + 1
    IN  [heap |-> AllocItems(Append(h, EmptyDict), a, v.map, KeysOf(v.map)), res |-> a]

\* the nested JSON mapping that address a of heap h holds
RECURSIVE Deref(_, _)
Deref(h, a) ==
    Map([k \in DOMAIN h[a] |-> IF IsRef(h[a][k]) THEN Deref(h, h[a][k].ref) ELSE h[a][k]])

\* deep_merge(base, update) on two JSON mappings given by value
MergeValues(base, update) ==
    LET hb == Alloc(<<>>, base)
        hu == Alloc(hb.heap, update)
        m == deep_merge(hu.heap, hb.res, hu.res)
    IN  Deref(m.heap, m.res)

------------------------------------------------------------------------------
(* The steps of main() on the in-memory document.  Each gives the document *)
(* after the step, or the exception the step raises.                       *)

CredKeys == {"ARK_API_KEY", "ARK_MODEL_ID", "ARK_CODING_PLAN", "FEISHU_APP_ID",
             "FEISHU_APP_SECRET", "TELEGRAM_BOT_TOKEN", "DINGTALK_CLIENT_ID",
             "DINGTALK_CLIENT_SECRET", "WECOM_TOKEN", "WECOM_ENCODING_AES_KEY"}

NoCreds == [k \in CredKeys |-> ""]

\* secrets.token_hex(nbytes): 2 * nbytes hexadecimal digits; fill is the digit drawn
token_hex(nbytes, fill) == Rep(fill, 2 * nbytes)

\* lines 144-149
StepToken(cfg, token) ==
    SetIn(EnsureIn(EnsureIn(cfg, <<"gateway">>), <<"gateway", "auth">>),
          <<"gateway", "auth", "token">>, Str(token))

\* lines 165-182: the one entry of "models"
ark_model(model_id, inst) ==
    Put(Put(Put(Put(
        Map5("id", Str(model_id),
             "name", Str(model_id),
             "reasoning", Bool(FALSE),
             "input", List(<<Str("text")>>),
             "cost", Map4("input", Num(0), "output", Num(0),
                          "cacheRead", Num(0), "cacheWrite", Num(0))),
        "contextWindow", Num(200000)),
        "maxTokens", Num(8192)),
        "headers", Map1("X-Client-Request-Id",
                        Str("ecs-openclaw/" \o SCRIPT_VERSION \o "/" \o inst))),
        "compat", Map1("supportsDeveloperRole", Bool(FALSE)))

\* lines 157-186
ark_config(ark_url, api_key, model_id, inst) ==
    Map2("mode", Str("merge"),
         "providers", Map1("ark",
             Map4("baseUrl", Str(ark_url),
                  "apiKey", Str(api_key),
                  "api", Str("openai-completions"),
                  "models", List(<<ark_model(model_id, inst)>>))))

\* lines 152-197
StepArk(cfg, c, site_name, inst) ==
    IF c["ARK_API_KEY"] # "" /\ c["ARK_MODEL_ID"] # ""
    THEN LET models == IF "models" \in DOMAIN cfg.map THEN cfg.map["models"] ELSE EmptyMap
             ark_url == get_ark_url(site_name, c["ARK_CODING_PLAN"] = "true")
             ref == "ark/" \o c["ARK_MODEL_ID"]
         IN  IF ~IsMap(models) THEN Raise("AttributeError")
             ELSE LET c1 == Put(cfg, "models",
                                MergeValues(models,
                                    ark_config(ark_url, c["ARK_API_KEY"],
                                               c["ARK_MODEL_ID"], inst)))
                      c2 == EnsureIn(EnsureIn(c1, <<"agents">>), <<"agents", "defaults">>)
                      c3 == SetIn(c2, <<"agents", "defaults", "model">>,
                                  Map1("primary", Str(ref)))
                  IN  SetIn(c3, <<"agents", "defaults", "models">>, Map1(ref, EmptyMap))
    ELSE cfg

\* a main() that never adds an empty "channels" section
StepChannelsLazy(cfg) == cfg

\* lines 199-200
StepChannels(cfg) == EnsureIn(cfg, <<"channels">>)

\* lines 202-209
StepFeishuId(cfg, c) ==
    IF c["FEISHU_APP_ID"] # ""
    THEN SetIn(EnsureIn(cfg, <<"channels", "feishu">>),
               <<"channels", "feishu", "appId">>, Str(c["FEISHU_APP_ID"]))
    ELSE cfg

\* lines 211-218
StepFeishuSecret(cfg, c) ==
    IF c["FEISHU_APP_SECRET"] # ""
    THEN SetIn(EnsureIn(cfg, <<"channels", "feishu">>),
               <<"channels", "feishu", "appSecret">>, Str(c["FEISHU_APP_SECRET"]))
    ELSE cfg

\* lines 220-236
StepTelegram(cfg, c) ==
    IF c["TELEGRAM_BOT_TOKEN"] # ""
    THEN LET c1 == SetIn(cfg, <<"channels", "telegram">>,
                         Map5("enabled", Bool(TRUE),
                              "dmPolicy", Str("pairing"),
                              "botToken", Str(c["TELEGRAM_BOT_TOKEN"]),
                              "groupPolicy", Str("allowlist"),
                              "streamMode", Str("partial")))
             c2 == EnsureIn(EnsureIn(c1, <<"plugins">>), <<"plugins", "entries">>)
         IN  SetIn(c2, <<"plugins", "entries", "telegram">>, Map1("enabled", Bool(TRUE)))
    ELSE cfg

\* lines 248-256 and 279-285
EnableChatCompletions(cfg) ==
    SetIn(EnsureIn(EnsureIn(EnsureIn(EnsureIn(cfg,
              <<"gateway">>),
              <<"gateway", "http">>),
              <<"gateway", "http", "endpoints">>),
              <<"gateway", "http", "endpoints", "chatCompletions">>),
          <<"gateway", "http", "endpoints", "chatCompletions", "enabled">>, Bool(TRUE))

\* lines 238-259
StepDingTalk(cfg, c) ==
    IF c["DINGTALK_CLIENT_ID"] # "" /\ c["DINGTALK_CLIENT_SECRET"] # ""
    THEN LET gateway_token == Lookup(cfg, <<"gateway", "auth", "token">>)
             c1 == SetIn(cfg, <<"channels", "dingtalk-connector">>,
                         Map5("enabled", Bool(TRUE),
                              "clientId", Str(c["DINGTALK_CLIENT_ID"]),
                              "clientSecret", Str(c["DINGTALK_CLIENT_SECRET"]),
                              "gatewayToken", gateway_token,
                              "sessionTimeout", Num(1800000)))
         IN  EnableChatCompletions(c1)
    ELSE cfg

\* a WeCom gate that is open when either credential is set
WeComGateEither(c) == c["WECOM_TOKEN"] # "" \/ c["WECOM_ENCODING_AES_KEY"] # ""

\* line 261: if wecom_token and wecom_encoding_aes_key
WeComGate(c) == c["WECOM_TOKEN"] # "" /\ c["WECOM_ENCODING_AES_KEY"] # ""

\* lines 263-264: the warning lines the WeCom step logs
WeComWarnings(c) ==
    IF WeComGate(c) /\ Len(c["WECOM_ENCODING_AES_KEY"]) # AesKeyLen
    THEN <<"Warning: EncodingAESKey should be 43 characters">>
    ELSE <<>>

\* lines 261-288
StepWeCom(cfg, c) ==
    IF WeComGate(c)
    THEN LET c1 == SetIn(cfg, <<"channels", "wecom">>,
                         Map4("enabled", Bool(TRUE),
                              "webhookPath", Str("/wecom"),
                              "token", Str(c["WECOM_TOKEN"]),
                              "encodingAESKey", Str(c["WECOM_ENCODING_AES_KEY"])))
             c2 == SetIn(EnsureIn(c1, <<"gateway">>), <<"gateway", "bind">>, Str("lan"))
             c3 == EnsureIn(c2, <<"gateway", "controlUi">>)
             c4 == SetIn(c3, <<"gateway", "controlUi", "enabled">>, Bool(TRUE))
             c5 == SetIn(c4, <<"gateway", "controlUi", "allowInsecureAuth">>, Bool(TRUE))
         IN  EnableChatCompletions(c5)
    ELSE cfg

\* lines 290-293
StepMeta(cfg, now) ==
    SetIn(EnsureIn(cfg, <<"meta">>), <<"meta", "lastTouchedAt">>, Str(now))

------------------------------------------------------------------------------
(* Files.  A file's content is a sequence of chunks [k, v]: json.dump      *)
(* writes "{", one chunk per top-level entry, and "}"; a document that is  *)
(* not a mapping is one chunk.  An empty or cut-off file parses to no      *)
(* document.                                                               *)

Brace(b) == [k |-> b, v |-> Null]
Entry(key, value) == [k |-> key, v |-> value]
Marks == {"{", "}", "", "#"}

\* text json.load rejects
Garbage == <<[k |-> "#", v |-> Null]>>

\* json.dump(config, f, indent=2, ensure_ascii=False): the chunks written
Serialize(doc) ==
    IF IsMap(doc)
    THEN LET ks == KeysOf(doc.map)
         IN  <<Brace("{")>> \o [i \in 1..Len(ks) |-> Entry(ks[i], doc.map[ks[i]])]
                            \o <<Brace("}")>>
    ELSE <<Entry("", doc)>>

\* json.load(f): the document, or JSONDecodeError
Parse(text) ==
    IF Len(text) = 1 /\ text[1].k = "" THEN text[1].v
    ELSE IF /\ Len(text) >= 2
            /\ text[1] = Brace("{")
            /\ text[Len(text)] = Brace("}")
            /\ \A i \in 2..(Len(text) - 1) : text[i].k \notin Marks
         THEN Map([key \in {text[i].k : i \in 2..(Len(text) - 1)} |->
                      (CHOOSE c \in {text[i] : i \in 2..(Len(text) - 1)} : c.k = key).v])
    ELSE Raise("JSONDecodeError")

\* the index of the last "." of a file name, 0 when it has none
RECURSIVE LastDot(_, _)
LastDot(name, i) ==
    IF i = 0 THEN 0 ELSE IF Char(name, i) = "." THEN i ELSE LastDot(name, i - 1)

\* Path.with_suffix(suffix): the name with its last suffix replaced
with_suffix(name, suffix) ==
    LET dot == LastDot(name, Len(name))
    IN  IF dot <= 1 THEN name \o suffix ELSE SubSeq(name, 1, dot - 1) \o suffix

\* line 296
BackupName == with_suffix(CONFIG_FILE, ".json.bak")

\* the file system with file name holding content
WriteFile(files, name, content) ==
    [n \in DOMAIN files \cup {name} |-> IF n = name THEN content ELSE files[n]]

NoFiles == [n \in {} |-> <<>>]

\* a backup step that copies nothing
shutil_copy_nothing(files, src, dst) == files

\* shutil.copy(src, dst) once it has finished
shutil_copy(files, src, dst) == WriteFile(files, dst, files[src])

------------------------------------------------------------------------------
(* The inputs a run can meet *)

\* digits secrets.token_hex is taken to draw (every digit of a token the same)
HexFills == {"a", "b"}

\* values of datetime.utcnow().strftime("%Y-%m-%dT%H:%M:%S.000Z")
Timestamps == {"2026-01-01T00:00:00.000Z"}

\* what the metadata service answers: None for any failure of the GET
SiteResponses == {None, Some("BytePlus\n"), Some("Volcengine\n")}
InstanceResponses == {None, Some("i-0abc\n")}

\* how open(LOG_FILE, "a") ends: it opens, it raises PermissionError (swallowed by
\* log), or it raises another OSError (no /var/log, a read-only file system)
LogOpens == {"ok", "PermissionError", "OSError"}

\* the values an operator gives a credential
CredValues(key) ==
    CASE key = "ARK_CODING_PLAN" -> {"true"}
      [] key = "ARK_MODEL_ID" -> {"m1"}
      [] key = "WECOM_ENCODING_AES_KEY" ->
             {Rep("k", AesKeyLen), Rep("k", AesKeyLen - 3), Rep("k", AesKeyLen + 1)}
      [] OTHER -> {"s3cret"}

\* every os.environ that sets some of the keys ks (a sequence) to such values
RECURSIVE Environs(_)
Environs(ks) ==
    IF ks = <<>> THEN {EmptyDict}
    ELSE LET rest == Environs(Tail(ks))
         IN  rest \cup {PutStr(e, Head(ks), v) : e \in rest, v \in CredValues(Head(ks))}

\* a document an operator wrote by hand before the script ran
HandWritten ==
    Map3("gateway", Map3("auth", Map1("token", Str("old")),
                         "bind", Str("loopback"),
                         "controlUi", Map1("enabled", Bool(FALSE))),
         "channels", Map1("wecom", Map1("enabled", Bool(FALSE))),
         "meta", Map1("lastTouchedAt", Str("2025-12-31T00:00:00.000Z")))

\* documents with a section that is not a mapping
Malformed ==
    { List(<<>>),
      Map1("gateway", Str("x")),
      Map1("gateway", Map1("controlUi", Str("x"))),
      Map1("channels", List(<<>>)),
      Map1("meta", Str("x")) }

\* the hosts followed: a fresh host given any subset of the ten credentials and run
\* once; a host with an existing file, given the WeCom credentials and run once; a
\* host given the DingTalk credentials and run MaxRuns times
Hosts ==
    { [kind |-> "fresh", keys |-> CredKeys, runs |-> 1],
      [kind |-> "existing", keys |-> {"WECOM_TOKEN", "WECOM_ENCODING_AES_KEY"}, runs |-> 1],
      [kind |-> "rerun", keys |-> {"DINGTALK_CLIENT_ID", "DINGTALK_CLIENT_SECRET"},
       runs |-> MaxRuns] }

\* the files of CONFIG_DIR a host starts with
InitialFiles(h) ==
    IF h.kind = "existing"
    THEN {WriteFile(NoFiles, CONFIG_FILE, Serialize(d)) :
              d \in {EmptyMap, HandWritten} \cup Malformed}
         \cup {WriteFile(NoFiles, CONFIG_FILE, Garbage),
               WriteFile(NoFiles, CONFIG_FILE, <<>>),
               WriteFile(NoFiles, BackupName, Serialize(HandWritten))}
    ELSE {NoFiles}

------------------------------------------------------------------------------
(* main(), lines 97-303: credentials, the document, the backup, the write *)

Stopped == {"idle", "done", "aborted", "killed"}

Loops == {"enable", "restart"}

\* the memory-limit step on its own is not followed
MemIdle ==
    /\ memPrev = None
    /\ memTotals = <<>>
    /\ memWrote = FALSE

\* the credential lookup on its own is not followed
EnvIdle ==
    /\ envFile = None
    /\ os_environ = EmptyDict
    /\ fileVars = EmptyDict
    /\ resolved = None

\* deep_merge on its own is not followed
MergeIdle ==
    /\ heap0 = <<>>
    /\ heap = <<>>
    /\ baseAt = 0
    /\ updateAt = 0
    /\ resultAt = 0

AuxIdle == MemIdle /\ EnvIdle /\ MergeIdle

\* no retry loop has run, the bus socket has not been waited for
ServiceOff ==
    /\ waited = 0
    /\ attempt = 0
    /\ calls = [l \in Loops |-> 0]
    /\ slept = [l \in Loops |-> 0]
    /\ ended = [l \in Loops |-> ""]

\* the service phase has not begun
ServiceIdle == unit = None /\ ServiceOff

\* the process is gone: its memory with it
Forget ==
    /\ creds' = NoCreds
    /\ config' = Null
    /\ loaded' = Null
    /\ site' = ""
    /\ instance_id' = ""
    /\ log' = <<>>

\* an exception nothing catches: traceback, exit status 1
Abort ==
    /\ pc' = "aborted"
    /\ Forget
    /\ UNCHANGED <<host, runs, fs, startFs, pending>>

\* a step that turns the document into next_config, or raises
Step(next_pc, next_config, lines) ==
    IF IsExc(next_config) THEN Abort
    ELSE /\ pc' = next_pc
         /\ config' = next_config
         /\ log' = log \o lines
         /\ UNCHANGED <<host, runs, fs, startFs, creds, loaded, site, instance_id, pending>>

\* lines 98-128: the first log line, load_env_file, the ten get_config calls
Start ==
    /\ pc \in Stopped
    /\ runs < host.runs
    /\ runs' = runs + 1
    /\ startFs' = fs
    /\ pending' = <<>>
    /\ UNCHANGED <<host, fs>>
    /\ \E log_open \in LogOpens, environ \in Environs(SetToSeq(host.keys)) :
          IF log_open = "OSError"
          THEN pc' = "aborted" /\ Forget
          ELSE /\ pc' = "load"
               /\ creds' = [key \in CredKeys |->
                               get_config(environ, load_env_file(None), key)]
               /\ config' = Null
               /\ loaded' = Null
               /\ site' = ""
               /\ instance_id' = ""
               /\ log' = <<>>
    /\ UNCHANGED <<svcVars, auxVars>>

\* lines 130-136
LoadConfig ==
    /\ pc = "load"
    /\ LET doc == IF CONFIG_FILE \in DOMAIN fs THEN Parse(fs[CONFIG_FILE]) ELSE EmptyMap
       IN  IF IsExc(doc) THEN Abort
           ELSE /\ pc' = "site"
                /\ config' = doc
                /\ loaded' = doc
                /\ UNCHANGED <<host, runs, fs, startFs, creds, site, instance_id,
                               pending, log>>
    /\ UNCHANGED <<svcVars, auxVars>>

\* lines 138-139
DetectSite ==
    /\ pc = "site"
    /\ \E resp \in SiteResponses : site' = detect_site(resp)
    /\ pc' = "instance"
    /\ UNCHANGED <<host, runs, fs, startFs, creds, config, loaded, instance_id,
                   pending, log>>
    /\ UNCHANGED <<svcVars, auxVars>>

\* lines 141-142
GetInstanceId ==
    /\ pc = "instance"
    /\ \E resp \in InstanceResponses : instance_id' = get_instance_id(resp)
    /\ pc' = "token"
    /\ UNCHANGED <<host, runs, fs, startFs, creds, config, loaded, site, pending, log>>
    /\ UNCHANGED <<svcVars, auxVars>>

\* lines 144-150
GenerateToken ==
    /\ pc = "token"
    /\ \E fill \in HexFills :
          Step("ark", StepToken(config, token_hex(TokenBytes, fill)), <<>>)
    /\ UNCHANGED <<svcVars, auxVars>>

\* lines 152-197
ConfigureArk ==
    /\ pc = "ark"
    /\ Step("channels", StepArk(config, creds, site, instance_id), <<>>)
    /\ UNCHANGED <<svcVars, auxVars>>

\* lines 199-200
EnsureChannels ==
    /\ pc = "channels"
    /\ Step("feishu_id", StepChannels(config), <<>>)
    /\ UNCHANGED <<svcVars, auxVars>>

\* lines 202-209
ConfigureFeishuId ==
    /\ pc = "feishu_id"
    /\ Step("feishu_secret", StepFeishuId(config, creds), <<>>)
    /\ UNCHANGED <<svcVars, auxVars>>

\* lines 211-218
ConfigureFeishuSecret ==
    /\ pc = "feishu_secret"
    /\ Step("telegram", StepFeishuSecret(config, creds), <<>>)
    /\ UNCHANGED <<svcVars, auxVars>>

\* lines 220-236
ConfigureTelegram ==
    /\ pc = "telegram"
    /\ Step("dingtalk", StepTelegram(config, creds), <<>>)
    /\ UNCHANGED <<svcVars, auxVars>>

\* lines 238-259
ConfigureDingTalk ==
    /\ pc = "dingtalk"
    /\ Step("wecom", StepDingTalk(config, creds), <<>>)
    /\ UNCHANGED <<svcVars, auxVars>>

\* lines 261-288
ConfigureWeCom ==
    /\ pc = "wecom"
    /\ Step("meta", StepWeCom(config, creds), WeComWarnings(creds))
    /\ UNCHANGED <<svcVars, auxVars>>

\* lines 290-293
StampMeta ==
    /\ pc = "meta"
    /\ \E now \in Timestamps : Step("backup", StepMeta(config, now), <<>>)
    /\ UNCHANGED <<svcVars, auxVars>>

\* lines 295-297: shutil.copy opens the backup for writing (it is empty), or there
\* is no file to back up
BackupOpen ==
    /\ pc = "backup"
    /\ IF CONFIG_FILE \in DOMAIN fs
       THEN pc' = "copy" /\ fs' = WriteFile(fs, BackupName, <<>>)
       ELSE pc' = "open" /\ fs' = fs
    /\ UNCHANGED <<host, runs, startFs, creds, config, loaded, site, instance_id,
                   pending, log>>
    /\ UNCHANGED <<svcVars, auxVars>>

\* lines 297-298: shutil.copy writes the content
BackupCopy ==
    /\ pc = "copy"
    /\ fs' = shutil_copy(fs, CONFIG_FILE, BackupName)
    /\ pc' = "open"
    /\ UNCHANGED <<host, runs, startFs, creds, config, loaded, site, instance_id,
                   pending, log>>
    /\ UNCHANGED <<svcVars, auxVars>>

\* line 301: open(CONFIG_FILE, "w") truncates the file
OpenForWrite ==
    /\ pc = "open"
    /\ fs' = WriteFile(fs, CONFIG_FILE, <<>>)
    /\ pending' = Serialize(config)
    /\ pc' = "write"
    /\ UNCHANGED <<host, runs, startFs, creds, config, loaded, site, instance_id, log>>
    /\ UNCHANGED <<svcVars, auxVars>>

\* lines 302-303: json.dump fills the buffer; a full buffer, and the close at the
\* end of the with block, write it to the file
WriteFlush ==
    /\ pc = "write"
    /\ LET written == Len(fs[CONFIG_FILE])
           upto == IF Len(pending) - written <= FlushChunks
                   THEN Len(pending) ELSE written + FlushChunks
       IN  /\ fs' = WriteFile(fs, CONFIG_FILE, SubSeq(pending, 1, upto))
           /\ pc' = IF upto = Len(pending) THEN "saved" ELSE "write"
    /\ UNCHANGED <<host, runs, startFs, creds, config, loaded, site, instance_id,
                   pending, log>>
    /\ UNCHANGED <<svcVars, auxVars>>

\* lines 305-423, which touch none of these files (followed step by step under
\* SpecService): main() returns, or a step raises what it does not catch
Provision ==
    /\ pc = "saved"
    /\ \E end \in {"done", "aborted"} : pc' = end
    /\ Forget
    /\ UNCHANGED <<host, runs, fs, startFs, pending>>
    /\ UNCHANGED <<svcVars, auxVars>>

\* the process is terminated from outside while it runs
Kill ==
    /\ pc \notin Stopped
    /\ pc' = "killed"
    /\ Forget
    /\ UNCHANGED <<host, runs, fs, startFs, pending>>
    /\ UNCHANGED <<svcVars, auxVars>>

Init ==
    /\ pc = "idle"
    /\ host \in Hosts
    /\ runs = 0
    /\ fs \in InitialFiles(host)
    /\ startFs = fs
    /\ creds = NoCreds
    /\ config = Null
    /\ loaded = Null
    /\ site = ""
    /\ instance_id = ""
    /\ pending = <<>>
    /\ log = <<>>
    /\ ServiceIdle
    /\ AuxIdle

Next ==
    \/ Start
    \/ LoadConfig
    \/ DetectSite
    \/ GetInstanceId
    \/ GenerateToken
    \/ ConfigureArk
    \/ EnsureChannels
    \/ ConfigureFeishuId
    \/ ConfigureFeishuSecret
    \/ ConfigureTelegram
    \/ ConfigureDingTalk
    \/ ConfigureWeCom
    \/ StampMeta
    \/ BackupOpen
    \/ BackupCopy
    \/ OpenForWrite
    \/ WriteFlush
    \/ Provision
    \/ Kill

Spec == Init /\ [][Next]_vars

------------------------------------------------------------------------------
(* Properties of the configuration phase *)

\* Some(content) of a file, None when it does not exist
FileOpt(files, name) == IF name \in DOMAIN files THEN Some(files[name]) ELSE None

\* the document the config file holds (an exception when it holds none)
Persisted == IF CONFIG_FILE \in DOMAIN fs THEN Parse(fs[CONFIG_FILE]) ELSE Raise("absent")

\* a run that found no config file has written its document
FreshSaved == pc = "saved" /\ CONFIG_FILE \notin DOMAIN startFs

\* C1: no run of main() ends in an exception that nothing catches: whatever the
\* inputs and external failures, the run goes on to its last step.
C1_NoAbort == pc # "aborted"

\* the top-level keys the credentials of the run activate
ActivatedKeys ==
    (IF creds["ARK_API_KEY"] # "" /\ creds["ARK_MODEL_ID"] # ""
     THEN {"models", "agents"} ELSE {})
    \cup (IF creds["TELEGRAM_BOT_TOKEN"] # "" THEN {"plugins"} ELSE {})

\* whether the credentials of the run configure a channel
SomeChannel ==
    \/ creds["FEISHU_APP_ID"] # ""
    \/ creds["FEISHU_APP_SECRET"] # ""
    \/ creds["TELEGRAM_BOT_TOKEN"] # ""
    \/ creds["DINGTALK_CLIENT_ID"] # "" /\ creds["DINGTALK_CLIENT_SECRET"] # ""
    \/ creds["WECOM_TOKEN"] # "" /\ creds["WECOM_ENCODING_AES_KEY"] # ""

\* C2 as stated: a fresh run writes a document with gateway.auth.token of 64
\* hexadecimal characters and meta.lastTouchedAt, whose top-level keys are gateway,
\* meta and those the present credentials activate: {gateway, meta} with none.
C2_FreshDocAsStated ==
    FreshSaved =>
        /\ IsMap(Persisted)
        /\ Len(Lookup(Persisted, <<"gateway", "auth", "token">>).str) = 64
        /\ HasPath(Persisted, <<"meta", "lastTouchedAt">>)
        /\ DOMAIN Persisted.map =
               {"gateway", "meta"} \cup ActivatedKeys
               \cup (IF SomeChannel THEN {"channels"} ELSE {})

\* C2 amended: a fresh run writes a document with gateway.auth.token of 48
\* hexadecimal characters and meta.lastTouchedAt, whose top-level keys are gateway,
\* channels, meta and those the present credentials activate; with no credentials
\* it is exactly {gateway: {auth: {token}}, channels: {}, meta: {lastTouchedAt}}.
C2_FreshDoc ==
    FreshSaved =>
        /\ IsMap(Persisted)
        /\ Len(Lookup(Persisted, <<"gateway", "auth", "token">>).str) = 48
        /\ HasPath(Persisted, <<"meta", "lastTouchedAt">>)
        /\ DOMAIN Persisted.map = {"gateway", "channels", "meta"} \cup ActivatedKeys
        /\ creds = NoCreds =>
              /\ DOMAIN Persisted.map = {"gateway", "channels", "meta"}
              /\ DOMAIN Persisted.map["gateway"].map = {"auth"}
              /\ DOMAIN Persisted.map["gateway"].map["auth"].map = {"token"}
              /\ Persisted.map["channels"] = EmptyMap
              /\ DOMAIN Persisted.map["meta"].map = {"lastTouchedAt"}

\* a fresh run with no credential at all has written its document
C2_Witness == FreshSaved /\ creds = NoCreds

\* C6: after a run is terminated, the config file is what it was when the run
\* started or the complete new document, never an empty or cut-off file.
C6_AtomicWrite ==
    pc = "killed" =>
        \/ FileOpt(fs, CONFIG_FILE) = FileOpt(startFs, CONFIG_FILE)
        \/ pending # <<>> /\ FileOpt(fs, CONFIG_FILE) = Some(pending)

AfterWeCom == {"meta", "backup", "copy", "open", "write", "saved"}

WeComPaths == {<<"channels", "wecom">>, <<"gateway", "bind">>, <<"gateway", "controlUi">>}

\* C8: past the WeCom step, with both WeCom credentials set the document has
\* channels.wecom, gateway.bind "lan", controlUi.allowInsecureAuth and the
\* chatCompletions flag true, and the step logged one warning if the AES key is
\* not 43 long and none if it is; with either credential empty channels.wecom,
\* gateway.bind and gateway.controlUi are as json.load returned them.  The written
\* file holds that document.
C8_WeComGate ==
    pc \in AfterWeCom =>
        /\ (creds["WECOM_TOKEN"] # "" /\ creds["WECOM_ENCODING_AES_KEY"] # "") =>
              /\ Lookup(config, <<"channels", "wecom">>) =
                     Map4("enabled", Bool(TRUE), "webhookPath", Str("/wecom"),
                          "token", Str(creds["WECOM_TOKEN"]),
                          "encodingAESKey", Str(creds["WECOM_ENCODING_AES_KEY"]))
              /\ Lookup(config, <<"gateway", "bind">>) = Str("lan")
              /\ Lookup(config, <<"gateway", "controlUi", "allowInsecureAuth">>) = Bool(TRUE)
              /\ Lookup(config, <<"gateway", "http", "endpoints", "chatCompletions",
                                  "enabled">>) = Bool(TRUE)
              /\ Len(log) = IF Len(creds["WECOM_ENCODING_AES_KEY"]) = 43 THEN 0 ELSE 1
        /\ (creds["WECOM_TOKEN"] = "" \/ creds["WECOM_ENCODING_AES_KEY"] = "") =>
              /\ \A p \in WeComPaths :
                    /\ HasPath(config, p) = HasPath(loaded, p)
                    /\ Lookup(config, p) = Lookup(loaded, p)
              /\ log = <<>>
        /\ pc = "saved" => Persisted = config

\* a hand-written document with gateway.bind "loopback" was loaded, both WeCom
\* credentials are set with a key of another length than 43, and the file is written
C8_Witness ==
    /\ pc = "saved"
    /\ loaded = HandWritten
    /\ creds["WECOM_TOKEN"] # ""
    /\ Len(creds["WECOM_ENCODING_AES_KEY"]) = 40
    /\ Lookup(Persisted, <<"gateway", "bind">>) = Str("lan")

\* C9: every document the config file holds that has a channels.dingtalk-connector
\* block has that block's gatewayToken equal to its gateway.auth.token.
C9_TokenInBlock ==
    (~IsExc(Persisted) /\ HasPath(Persisted, <<"channels", "dingtalk-connector">>)) =>
        Lookup(Persisted, <<"channels", "dingtalk-connector", "gatewayToken">>)
            = Lookup(Persisted, <<"gateway", "auth", "token">>)

------------------------------------------------------------------------------
(* Text operations of the memory-limit step *)

\* str.splitlines() for the line boundary "\n"
RECURSIVE SplitLines(_)
SplitLines(text) ==
    IF text = "" THEN <<>>
    ELSE LET i == Find(text, "\n", 1)
         IN  IF i = 0 THEN <<text>>
             ELSE <<SubSeq(text, 1, i - 1)>> \o SplitLines(SubSeq(text, i + 1, Len(text)))

\* the index of the first whitespace character of s, Len(s) + 1 when it has none
RECURSIVE WordEnd(_, _)
WordEnd(text, i) ==
    IF i > Len(text) \/ Char(text, i) \in Whitespace THEN i ELSE WordEnd(text, i + 1)

\* str.split(): the words between runs of whitespace
RECURSIVE Split(_)
Split(text) ==
    LET t == LStrip(text)
        e == WordEnd(t, 1)
    IN  IF t = "" THEN <<>>
        ELSE <<SubSeq(t, 1, e - 1)>> \o Split(SubSeq(t, e, Len(t)))

\* sep.join(lines)
RECURSIVE Join(_, _)
Join(lines, sep) ==
    IF lines = <<>> THEN ""
    ELSE IF Len(lines) = 1 THEN lines[1]
    ELSE lines[1] \o sep \o Join(Tail(lines), sep)

\* str.replace(old, new): every occurrence, left to right
RECURSIVE Replace(_, _, _)
Replace(text, old, new) ==
    LET i == Find(text, old, 1)
    IN  IF i = 0 THEN text
        ELSE SubSeq(text, 1, i - 1) \o new
             \o Replace(SubSeq(text, i + Len(old), Len(text)), old, new)

Digits == <<"0", "1", "2", "3", "4", "5", "6", "7", "8", "9">>
IsDigit(c) == \E d \in 1..10 : Digits[d] = c
DigitValue(c) == (CHOOSE d \in 1..10 : Digits[d] = c) - 1

\* the value of a string of digits, read after the value acc of those before it
RECURSIVE DigitsValue(_, _)
DigitsValue(text, acc) ==
    IF text = "" THEN acc
    ELSE DigitsValue(SubSeq(text, 2, Len(text)), 10 * acc + DigitValue(Char(text, 1)))

AllDigits(text) == text # "" /\ \A i \in 1..Len(text) : IsDigit(Char(text, i))

\* int(text) for a word: an optional sign and digits, else ValueError
ParseInt(text) ==
    LET signed == Len(text) > 0 /\ Char(text, 1) \in {"+", "-"}
        body == IF signed THEN SubSeq(text, 2, Len(text)) ELSE text
    IN  IF ~AllDigits(body) THEN Raise("ValueError")
        ELSE IF signed /\ Char(text, 1) = "-" THEN Num(0 - DigitsValue(body, 0))
        ELSE Num(DigitsValue(body, 0))

\* lines 342-347: total_mem_mb from the output of free -m, or the exception raised
RECURSIVE TotalFromLines(_)
TotalFromLines(lines) ==
    IF lines = <<>> THEN Num(0)
    ELSE IF StartsWith(Head(lines), "Mem:")
         THEN LET words == Split(Head(lines))
              IN  IF Len(words) < 2 THEN Raise("IndexError") ELSE ParseInt(words[2])
    ELSE TotalFromLines(Tail(lines))

\* line 362: whether a line of the unit file is kept
KeepLine(line) ==
    ~(StartsWith(Strip(line), "MemoryMax=") \/ StartsWith(Strip(line), "MemoryHigh="))

\* lines 350-351
MemoryMax(total_mem_mb) == ToString((total_mem_mb * 80) \div 100) \o "M"
MemoryHigh(total_mem_mb) == ToString((total_mem_mb * 75) \div 100) \o "M"

\* lines 357-371: the text written back, given that it holds "[Service]"
WithLimits(content, total_mem_mb) ==
    Replace(Join(SelectSeq(SplitLines(content), KeepLine), "\n"),
            "[Service]",
            "[Service]\nMemoryMax=" \o MemoryMax(total_mem_mb)
                \o "\nMemoryHigh=" \o MemoryHigh(total_mem_mb))

\* lines 334-381: the memory-limit step.  file is the unit file (None when it does
\* not exist); free is None when subprocess.run raised, else Some(stdout).  Gives
\* the unit file afterwards, whether write_text was called, the line logged.
MemoryStep(file, free) ==
    IF file = None
    THEN [unit |-> file, wrote |-> FALSE, line |-> "Warning: Service file not found"]
    ELSE IF free = None
    THEN [unit |-> file, wrote |-> FALSE,
          line |-> "Warning: Failed to configure memory limits"]
    ELSE LET total == TotalFromLines(SplitLines(free[1]))
             kept == Join(SelectSeq(SplitLines(file[1]), KeepLine), "\n")
         IN  IF IsExc(total)
             THEN [unit |-> file, wrote |-> FALSE,
                   line |-> "Warning: Failed to configure memory limits"]
             ELSE IF total.num > 0
             THEN IF Contains(kept, "[Service]")
                  THEN [unit |-> Some(WithLimits(file[1], total.num)), wrote |-> TRUE,
                        line |-> "Memory limits configured in service file"]
                  ELSE [unit |-> file, wrote |-> FALSE,
                        line |-> "Warning: [Service] section not found in service file"]
             ELSE [unit |-> file, wrote |-> FALSE,
                   line |-> "Warning: Could not determine total memory"]

------------------------------------------------------------------------------
(* main(), lines 305-423: linger, the bus socket, the memory limits, the    *)
(* daemon reload and the two retry loops                                    *)

\* lines 317, 391, 392
max_wait == 60
max_retries == 10
retry_delay == 5

\* how subprocess.run(..., check=True) ends: exit status 0, CalledProcessError for
\* another exit status, FileNotFoundError when the executable does not exist
RunOutcomes == {"ok", "CalledProcessError", "FileNotFoundError"}

\* what free -m prints (None: the command could not be run or failed)
FreeResults ==
    { None,
      Some("      total  used\nMem:   1000   200\nSwap:  0  0\n"),
      Some("Mem: 0 0\n"),
      Some("Mem: n/a\n"),
      Some("Mem:\n"),
      Some("Swap: 0 0\n") }

\* unit files a host has
ServiceUnits ==
    { None,
      Some("[Unit]\nDescription=gw\n"),
      Some("[Unit]\n[Service]\nExecStart=/bin/gw\nMemoryMax=1G\n") }

\* the configuration phase is not followed
ConfigIdle ==
    /\ host = [kind |-> "service", keys |-> {}, runs |-> 0]
    /\ runs = 0
    /\ fs = NoFiles
    /\ startFs = NoFiles
    /\ creds = NoCreds
    /\ config = Null
    /\ loaded = Null
    /\ site = ""
    /\ instance_id = ""
    /\ pending = <<>>

\* an exception nothing catches, in the service phase
AbortService ==
    /\ pc' = "aborted"
    /\ UNCHANGED <<log, cfgVars, svcVars, auxVars>>

\* lines 309-314
EnableLinger ==
    /\ pc = "linger"
    /\ \E outcome \in RunOutcomes :
          CASE outcome = "ok" ->
                   pc' = "bus" /\ UNCHANGED <<log, cfgVars, svcVars, auxVars>>
            [] outcome = "CalledProcessError" ->
                   /\ pc' = "bus"
                   /\ log' = Append(log, "Warning: Failed to enable linger")
                   /\ UNCHANGED <<cfgVars, svcVars, auxVars>>
            [] outcome = "FileNotFoundError" -> AbortService

\* lines 319-323: one test of the while condition, and one turn of the loop
PollBus ==
    /\ pc = "bus"
    /\ \E bus_exists \in BOOLEAN :
          IF ~bus_exists /\ waited < max_wait
          THEN /\ waited' = waited + 1
               /\ pc' = "bus"
          ELSE /\ waited' = waited
               /\ pc' = "bus_check"
    /\ UNCHANGED <<log, cfgVars, auxVars, unit, attempt, calls, slept, ended>>

\* lines 325-331; waited is not read again
CheckBus ==
    /\ pc = "bus_check"
    /\ \E bus_exists \in BOOLEAN :
          log' = IF bus_exists THEN log
                 ELSE Append(log, "Warning: Bus socket not found after "
                                      \o ToString(max_wait) \o "s, continuing anyway...")
    /\ waited' = 0
    /\ pc' = "memory"
    /\ UNCHANGED <<cfgVars, auxVars, unit, attempt, calls, slept, ended>>

\* lines 334-381
ConfigureMemory ==
    /\ pc = "memory"
    /\ \E free \in FreeResults :
          LET r == MemoryStep(unit, free)
          IN  /\ unit' = r.unit
              /\ log' = IF StartsWith(r.line, "Warning") THEN Append(log, r.line) ELSE log
    /\ pc' = "reload"
    /\ UNCHANGED <<cfgVars, auxVars, waited, attempt, calls, slept, ended>>

\* lines 384-389, and "for attempt in range(1, max_retries + 1)" begins
DaemonReload ==
    /\ pc = "reload"
    /\ \E outcome \in RunOutcomes :
          CASE outcome = "ok" ->
                   pc' = "enable" /\ attempt' = 1 /\ log' = log
            [] outcome = "CalledProcessError" ->
                   /\ pc' = "enable"
                   /\ attempt' = 1
                   /\ log' = Append(log, "Warning: daemon-reload failed")
            [] outcome = "FileNotFoundError" ->
                   pc' = "aborted" /\ attempt' = attempt /\ log' = log
    /\ UNCHANGED <<cfgVars, auxVars, unit, waited, calls, slept, ended>>

\* a loop without its break: the next attempt follows a success too
NextAttemptNoBreak(n, succeeded) == IF n < max_retries THEN n + 1 ELSE 0

\* the value of attempt in the next turn of a retry loop, 0 when the loop ends:
\* break on success, the end of range(1, max_retries + 1) otherwise
NextAttempt(n, succeeded) ==
    IF succeeded THEN 0 ELSE IF n < max_retries THEN n + 1 ELSE 0

\* lines 396-407 and 410-421: one turn of a retry loop.  what names the loop in
\* its log lines ("Enable", "Start"), after is the position that follows the loop.
RetryTurn(loop, what, after) ==
    /\ pc = loop
    /\ \E outcome \in RunOutcomes :
          IF outcome = "FileNotFoundError"
          THEN /\ pc' = "aborted"
               /\ calls' = [calls EXCEPT ![loop] = @ + 1]
               /\ UNCHANGED <<log, attempt, slept, ended>>
          ELSE LET succeeded == outcome = "ok"
                   next == NextAttempt(attempt, succeeded)
                   failed == what \o " attempt " \o ToString(attempt) \o "/"
                                  \o ToString(max_retries) \o " failed"
                   all_failed == "Warning: All " \o (IF loop = "enable" THEN "enable"
                                                     ELSE "start") \o " attempts failed"
               IN  /\ calls' = [calls EXCEPT ![loop] = @ + 1]
                   /\ log' = IF succeeded THEN log
                             ELSE IF attempt < max_retries THEN Append(log, failed)
                             ELSE log \o <<failed, all_failed>>
                   /\ slept' = IF ~succeeded /\ attempt < max_retries
                               THEN [slept EXCEPT ![loop] = @ + 1] ELSE slept
                   /\ attempt' = IF next = 0 THEN 1 ELSE next
                   /\ pc' = IF next = 0 THEN after ELSE loop
                   /\ ended' = IF next # 0 THEN ended
                               ELSE [ended EXCEPT ![loop] =
                                        IF succeeded THEN "succeeded" ELSE "exhausted"]
    /\ UNCHANGED <<cfgVars, auxVars, unit, waited>>

\* lines 395-407
EnableService == RetryTurn("enable", "Enable", "restart")

\* lines 409-421, and line 423
RestartService == RetryTurn("restart", "Start", "done")

InitService ==
    /\ pc = "linger"
    /\ log = <<>>
    /\ ConfigIdle
    /\ unit \in ServiceUnits
    /\ ServiceOff
    /\ AuxIdle

NextService ==
    \/ EnableLinger
    \/ PollBus
    \/ CheckBus
    \/ ConfigureMemory
    \/ DaemonReload
    \/ EnableService
    \/ RestartService

SpecService == InitService /\ [][NextService]_vars

------------------------------------------------------------------------------
(* The retry loops *)

\* how many of the lines begin with prefix
CountPrefix(lines, prefix) ==
    Cardinality({i \in 1..Len(lines) : StartsWith(lines[i], prefix)})

FailurePrefix(loop) == IF loop = "enable" THEN "Enable attempt " ELSE "Start attempt "
FinalWarning(loop) ==
    IF loop = "enable" THEN "Warning: All enable attempts failed"
    ELSE "Warning: All start attempts failed"

\* C4: in each retry loop systemctl is run at most 10 times and not again after it
\* succeeded; a loop that ended in success after k failures logged k failure
\* lines, slept k times and logged no final warning; a loop that ended without
\* success ran the command 10 times and logged one final warning; once the enable
\* loop has ended, either way, the restart loop is entered, and once the restart
\* loop has ended, either way, the run is at its last step.
C4_RetryLoops ==
    \A loop \in Loops :
        LET failures == CountPrefix(log, FailurePrefix(loop))
            finals == CountPrefix(log, FinalWarning(loop))
        IN  /\ calls[loop] <= 10
            /\ (pc = loop \/ ended[loop] # "") =>
                  /\ calls[loop] - failures \in {0, 1}
                  /\ calls[loop] - failures = 1 <=> ended[loop] = "succeeded"
            /\ ended[loop] = "succeeded" =>
                  /\ failures < 10
                  /\ calls[loop] = failures + 1
                  /\ slept[loop] = failures
                  /\ finals = 0
            /\ ended[loop] = "exhausted" =>
                  /\ calls[loop] = 10
                  /\ failures = 10
                  /\ slept[loop] = 9
                  /\ finals = 1
            /\ ended[loop] = "" => finals = 0
            /\ ended["enable"] # "" => (pc = "restart" \/ calls["restart"] >= 1)
            /\ ended["restart"] # "" => pc = "done"

\* enabling failed ten times, restarting failed nine times and then succeeded, and
\* the run is at its last step
C4_Witness ==
    /\ pc = "done"
    /\ ended["enable"] = "exhausted"
    /\ ended["restart"] = "succeeded"
    /\ calls["restart"] = 10
    /\ slept["restart"] = 9

------------------------------------------------------------------------------
(* The memory-limit step on its own: a unit file, run MaxApply times *)

\* how often the step is run on one unit file
MaxApply == 2
\* how many pieces a unit file is put together from
MaxUnitPieces == 4

UnitPieces == {"[Service]", "\n", "MemoryMax=1G", "MemoryHigh=2G", "ExecStart=/bin/gw",
               "# ", " "}

\* every text of at most n pieces
RECURSIVE TextsOf(_, _)
TextsOf(pieces, n) ==
    IF n = 0 THEN {""}
    ELSE LET shorter == TextsOf(pieces, n - 1)
         IN  shorter \cup {t \o q : t \in shorter, q \in pieces}

\* what free -m prints in these runs
FreeTotals ==
    { None, Some("Mem: 1000 200\n"), Some("Mem: 3 1\n"), Some("Mem: 0 0\n"),
      Some("Swap: 0 0\n") }

ApplyMemoryStep ==
    /\ pc = "memory"
    /\ Len(memTotals) < MaxApply
    /\ \E free \in FreeTotals :
          LET r == MemoryStep(unit, free)
          IN  /\ unit' = r.unit
              /\ memWrote' = r.wrote
              /\ log' = <<r.line>>
              /\ memTotals' = Append(memTotals,
                                     IF free = None THEN Raise("CalledProcessError")
                                     ELSE TotalFromLines(SplitLines(free[1])))
    /\ memPrev' = unit
    /\ pc' = "memory"
    /\ UNCHANGED <<cfgVars, envVars, mergeVars, waited, attempt, calls, slept, ended>>

InitMem ==
    /\ pc = "memory"
    /\ log = <<>>
    /\ ConfigIdle
    /\ ServiceOff
    /\ unit \in {None} \cup {Some(t) : t \in TextsOf(UnitPieces, MaxUnitPieces)}
    /\ MemIdle
    /\ EnvIdle
    /\ MergeIdle

NextMem == ApplyMemoryStep

SpecMem == InitMem /\ [][NextMem]_vars

\* the total memory the step last read: 0 when it read none
LastTotal ==
    LET t == memTotals[Len(memTotals)] IN IF IsExc(t) THEN 0 ELSE t.num

\* the indexes of the lines that set the directive
DirectiveLines(lines, directive) ==
    {i \in 1..Len(lines) : StartsWith(Strip(lines[i]), directive)}

\* C10: after the step has run on a unit file: if the total memory T is > 0 and
\* the file held the text [Service], the file has exactly one MemoryMax= line and one
\* MemoryHigh= line, with floor(T*80/100)M and floor(T*75/100)M, as the two lines
\* after the [Service] header, every other line is kept in order, and a second run
\* with the same T leaves the file as it is; otherwise the file is not rewritten.
C10_MemoryLimits ==
    (memTotals # <<>> /\ memPrev # None) =>
        IF LastTotal > 0 /\ Contains(memPrev[1], "[Service]")
        THEN LET lines == SplitLines(unit[1])
                 max_line == "MemoryMax=" \o ToString((LastTotal * 80) \div 100) \o "M"
                 high_line == "MemoryHigh=" \o ToString((LastTotal * 75) \div 100) \o "M"
             IN  /\ memWrote
                 /\ Cardinality(DirectiveLines(lines, "MemoryMax=")) = 1
                 /\ Cardinality(DirectiveLines(lines, "MemoryHigh=")) = 1
                 /\ \E i \in 1..(Len(lines) - 2) :
                       /\ Strip(lines[i]) = "[Service]"
                       /\ Strip(lines[i + 1]) = max_line
                       /\ Strip(lines[i + 2]) = high_line
                 /\ SelectSeq(lines, KeepLine) = SelectSeq(SplitLines(memPrev[1]), KeepLine)
                 /\ (Len(memTotals) >= 2 /\ memTotals[Len(memTotals) - 1] = Num(LastTotal)) =>
                       unit = memPrev
        ELSE ~memWrote /\ unit = memPrev

------------------------------------------------------------------------------
(* get_config on its own: one key, an environment and a .env file *)

\* how many characters the .env file has at most
MaxEnvFileLen == 4

EnvChars == {"A", "=", "#", " ", "v", "\n"}

\* the key looked up
EnvKey == "A"

\* os.environ: the key unset, set to the empty string, set to a value
Environments == {EmptyDict, PutStr(EmptyDict, EnvKey, ""), PutStr(EmptyDict, EnvKey, "v"),
                 PutStr(EmptyDict, EnvKey, "w")}

\* line 101
LoadEnvFile ==
    /\ pc = "env_load"
    /\ fileVars' = load_env_file(envFile)
    /\ pc' = "env_get"
    /\ UNCHANGED <<log, cfgVars, svcVars, memVars, mergeVars, envFile, os_environ, resolved>>

\* lines 107-116, for one key
GetConfig ==
    /\ pc = "env_get"
    /\ resolved' = Some(get_config(os_environ, fileVars, EnvKey))
    /\ pc' = "env_done"
    /\ UNCHANGED <<log, cfgVars, svcVars, memVars, mergeVars, envFile, os_environ, fileVars>>

InitEnv ==
    /\ pc = "env_load"
    /\ log = <<>>
    /\ ConfigIdle
    /\ ServiceIdle
    /\ MemIdle
    /\ MergeIdle
    /\ envFile \in {None} \cup {Some(t) : t \in TextsOf(EnvChars, MaxEnvFileLen)}
    /\ os_environ \in Environments
    /\ fileVars = EmptyDict
    /\ resolved = None

NextEnv ==
    \/ LoadEnvFile
    \/ GetConfig

SpecEnv == InitEnv /\ [][NextEnv]_vars

\* C3 as stated: for a key set in both the environment and the .env file,
\* get_config returns the environment's value, whatever the two values are, the
\* empty string included.
C3_EnvWinsAsStated ==
    (pc = "env_done" /\ EnvKey \in DOMAIN os_environ /\ EnvKey \in DOMAIN fileVars) =>
        resolved = Some(os_environ[EnvKey])

\* C3 amended: for a key set in both, get_config returns the environment's value
\* when that value is not the empty string, and the file's value when it is.
C3_EnvWins ==
    (pc = "env_done" /\ EnvKey \in DOMAIN os_environ /\ EnvKey \in DOMAIN fileVars) =>
        IF os_environ[EnvKey] # ""
        THEN resolved = Some(os_environ[EnvKey])
        ELSE resolved = Some(fileVars[EnvKey])

\* the key is "w" in the environment and "v" in the file, and was looked up
C3_Witness ==
    /\ pc = "env_done"
    /\ EnvKey \in DOMAIN os_environ
    /\ os_environ[EnvKey] = "w"
    /\ EnvKey \in DOMAIN fileVars
    /\ fileVars[EnvKey] = "v"

------------------------------------------------------------------------------
(* deep_merge on its own: two bounded nested mappings *)

MergeKeys == {"a", "b"}
Leaves == {Num(1), List(<<Num(1)>>), List(<<Num(2)>>)}

\* the mappings over keys whose values are drawn from values
MapsOver(keys, values) ==
    UNION {{Map(f) : f \in [ks -> values]} : ks \in SUBSET keys}

Flat == MapsOver(MergeKeys, Leaves)
Nested == MapsOver(MergeKeys, Leaves \cup Flat)
Deep == {Map1("a", Map1("b", m)) : m \in Flat}
Mappings == Nested \cup Deep

\* lines 87-94
Merge ==
    /\ pc = "merge"
    /\ LET m == deep_merge(heap, baseAt, updateAt)
       IN  heap' = m.heap /\ resultAt' = m.res
    /\ pc' = "merged"
    /\ UNCHANGED <<log, cfgVars, svcVars, memVars, envVars, heap0, baseAt, updateAt>>

InitMerge ==
    /\ pc = "merge"
    /\ log = <<>>
    /\ ConfigIdle
    /\ ServiceIdle
    /\ MemIdle
    /\ EnvIdle
    /\ \E base \in Mappings, update \in Mappings :
          LET hb == Alloc(<<>>, base)
              hu == Alloc(hb.heap, update)
          IN  /\ heap0 = hu.heap
              /\ heap = hu.heap
              /\ baseAt = hb.res
              /\ updateAt = hu.res
    /\ resultAt = 0

NextMerge == Merge

SpecMerge == InitMerge /\ [][NextMerge]_vars

\* r is the merge of b and u: its keys are theirs; a key of b alone keeps b's
\* value; a key of u holding mappings in both holds their merge; any other key of
\* u holds u's value
RECURSIVE IsMergeOf(_, _, _)
IsMergeOf(r, b, u) ==
    /\ IsMap(r)
    /\ DOMAIN r.map = DOMAIN b.map \cup DOMAIN u.map
    /\ \A k \in DOMAIN r.map :
          IF k \notin DOMAIN u.map THEN r.map[k] = b.map[k]
          ELSE IF k \in DOMAIN b.map /\ IsMap(b.map[k]) /\ IsMap(u.map[k])
               THEN IsMergeOf(r.map[k], b.map[k], u.map[k])
          ELSE r.map[k] = u.map[k]

\* C5: the result of deep_merge(base, update) is the merge of the two, and no dict
\* that existed before the call (base, update, the dicts inside them) is modified.
C5_DeepMerge ==
    pc = "merged" =>
        /\ IsMergeOf(Deref(heap, resultAt), Deref(heap0, baseAt), Deref(heap0, updateAt))
        /\ \A a \in 1..Len(heap0) : heap[a] = heap0[a]
        /\ Deref(heap, baseAt) = Deref(heap0, baseAt)

\* merged: {a: {a: 1}, b: [1]} with {a: {b: 1}, b: [2]}, giving {a: {a: 1, b: 1}, b: [2]}
C5_Witness ==
    /\ pc = "merged"
    /\ Deref(heap0, baseAt) = Map2("a", Map1("a", Num(1)), "b", List(<<Num(1)>>))
    /\ Deref(heap0, updateAt) = Map2("a", Map1("b", Num(1)), "b", List(<<Num(2)>>))
    /\ Deref(heap, resultAt) =
           Map2("a", Map2("a", Num(1), "b", Num(1)), "b", List(<<Num(2)>>))

====
